---- MODULE Spec2Model ----
(***************************************************************************)
(* A model of the activity-timeline generator of the mobile forensic image *)
(* generator: CommunicationEngine.generate_social_graph and the stepping   *)
(* loop of GeneratorManager.run (burst queue, calls, follow-up texts, geo  *)
(* samples), together with the concurrent GeneratorManager.stop.           *)
(*                                                                         *)
(* Times are whole seconds counted from an arbitrary origin; a timedelta   *)
(* is a number of seconds.  Every random.* call of the source is a choice  *)
(* (\E) over a small set of the values the call can return.                *)
(***************************************************************************)
EXTENDS Integers, Sequences, FiniteSets, TLC

VARIABLES
    params,          \* the params dict handed to run()
    scenarios,       \* the scenario catalog handed to the constructor
    config,          \* the settings handed to the constructor
    pc,              \* position of run(): see PcValues
    error,           \* the exception run() re-raised, or "none"
    is_cancelled,    \* GeneratorManager.is_cancelled
    graph,           \* the social graph: contact name -> contact record
    current_time,    \* the simulation clock of the loop
    burst_queue,     \* queued sub-events <<ts, data>> of the current interaction
    all_messages,    \* emitted messages, in emission order
    all_calls,       \* emitted calls, in emission order
    geo_points,      \* emitted geo samples, in emission order
    browser_history, \* browser-history entries, in creation order
    image_files,     \* image files generated for conversation lines
    msg_count,       \* number of messages emitted by the loop
    progress_log,    \* the values passed to callback_progress, in order
    handed_off,      \* the collections run() passed to the artifact writers
    last_pos,        \* GeoEngine.last_pos
    loc_seen,        \* an earlier get_location_for_time call: input and result
    loc_last,        \* the latest get_location_for_time call: input and result
    loc_calls,       \* number of get_location_for_time calls made
    db_pc,           \* position of a `with SQLiteDB(...) as c:` statement
    db_conn,         \* SQLiteDB.conn: "none", "open" or "closed"
    db_pending,      \* rows executed in the open transaction
    db_rows,         \* rows committed to the database file
    db_calls,        \* connection methods __exit__ called, in order
    db_block_exc,    \* the exception the with-block raised, or "none"
    db_raised,       \* the exception that reached the caller, or "none"
    worker_pc,       \* position of GeneratorWorker.run, "none" without a worker
    cancel_requested, \* MainWindow.cancel_generation has called worker.stop()
    signal,          \* the signal the worker emitted at its end, or "none"
    window           \* what the main window shows of the generation

\* The state of GeoEngine and of one SQLiteDB context manager.
geoVars == <<last_pos, loc_seen, loc_last, loc_calls>>
dbVars == <<db_pc, db_conn, db_pending, db_rows, db_calls, db_block_exc,
           db_raised>>

\* The state of GeneratorManager.run.
runVars == <<params, scenarios, config, pc, error, is_cancelled, graph,
             current_time, burst_queue, all_messages, all_calls, geo_points,
             browser_history, image_files, msg_count, progress_log, handed_off>>

\* The state of a GeneratorWorker thread and of the window that started it.
workerVars == <<worker_pc, cancel_requested, signal, window>>

vars == <<runVars, geoVars, dbVars, workerVars>>

loopVars == <<current_time, burst_queue, all_messages, all_calls, geo_points,
              browser_history, image_files, msg_count>>

-----------------------------------------------------------------------------
(* Program constants *)

GapMin == 1800          \* random.randint(1800, 10800), lower end
GapMax == 10800         \* random.randint(1800, 10800), upper end
DelayMin == 10          \* random.randint(10, 90), lower end
DelayMax == 90          \* random.randint(10, 90), upper end
FollowUpDelay == 300    \* timedelta(minutes=5)
DurationMin == 10       \* random.randint(10, 600), lower end
DurationMax == 600      \* random.randint(10, 600), upper end
DocViewLead == 30       \* timedelta(seconds=30)
JitterAmount == 900     \* _jitter(..., 0.0015), in units of 1/600000 degree

Roles == {"Colleague", "Friend", "Family"}
\* A message body: the text it was made from, and whether the humanizer's
\* random punctuation and emoji changes were applied to it.
FollowUpBody == [source |-> "Sorry I missed you.", humanized |-> FALSE]

-----------------------------------------------------------------------------
(* Bounds of the model *)

EndShort == 1850        \* an end_date one interaction fits before
EndLong == 3700         \* an end_date two interactions fit before
LateStart == 100        \* a start_date later than the earliest end_date
MaxMessages == 3        \* the largest num_messages
LongLines == 21         \* the lines of the long conversation template
LongTarget == 23        \* num_messages of the runs with the long template
MaxFreeLines == 2       \* longer templates draw one delay for all lines
MaxGeoCalls == 3        \* get_location_for_time calls followed
MaxRows == 3            \* the most rows executed on one database file

-----------------------------------------------------------------------------
(* Inputs: the scenario catalog, the Faker name source, the params *)

Min(a, b) == IF a < b THEN a ELSE b
Max(a, b) == IF a > b THEN a ELSE b

\* f"{fn} {ln}"
FullName(fn, ln) == fn \o " " \o ln

OwnerName == "ann lee"

\* What Faker().name() can return: any full name, among them the owner's own
\* name and a name the scenario pools already produce.
FakerNames == {"ann lee", "bob lee", "cy fox"}

\* What Faker().phone_number() can return.
PhoneNumbers == {"555-0100"}

\* A conversation line's content: its text, len(content), whether it holds a
\* "." and content.split(".")[-1].
Plain(text, n) == [text |-> text, len |-> n, dot |-> FALSE, ext |-> ""]
File(text, n, e) == [text |-> text, len |-> n, dot |-> TRUE, ext |-> e]

Line(role, content) == [role |-> role, content |-> content]

\* scenarios['conversations']: topic -> list of lines.  "weekend_plans" has
\* no template of its own and falls back to 'default'.
Conversations ==
    [t \in {"project_kickoff", "lunch_sushi", "default"} |->
        CASE t = "project_kickoff" ->
                <<Line("Owner", Plain("Kickoff at ten?", 15)),
                  Line("Partner", File("agenda.pdf", 10, "pdf"))>>
          [] t = "lunch_sushi" ->
                <<Line("Partner", File("IMG_0042.JPG", 12, "JPG"))>>
          [] OTHER ->
                <<Line("Owner", Plain("Hello", 5))>>]

Profiles ==
    [s \in {"General Use", "Corporate"} |->
        IF s = "Corporate" THEN {"project_kickoff"}
        ELSE {"project_kickoff", "lunch_sushi", "weekend_plans"}]

ScenarioCatalog ==
    [first_names |-> <<"ann", "bob">>, last_names |-> <<"lee">>,
     profiles |-> Profiles, conversations |-> Conversations]

\* self.config: its "common_urls" list, absent or with one site
Site == [url |-> "https://news.example.org", title |-> "News"]
Configs == {[common_urls |-> <<>>], [common_urls |-> <<Site>>]}

NetworkSizes == {-1, 0, 1, 2}
InstalledApps == {{"Chrome"}, {"Chrome", "WhatsApp"}}
StartDates == {0, LateStart}
EndDates == {0, EndShort, EndLong}
MessageTargets == {-1, 0, 1, MaxMessages}

AllParams ==
    [owner_name : {OwnerName}, start_date : StartDates, end_date : EndDates,
     installed_apps : InstalledApps, network_size : NetworkSizes,
     num_messages : MessageTargets, scenario : {"General Use"}]

\* A catalog whose only template is one long conversation, the sides
\* taking turns.
LongTemplate ==
    [i \in 1..LongLines |->
        Line(IF i % 2 = 1 THEN "Owner" ELSE "Partner", Plain("Hi", 2))]

LongCatalog ==
    [first_names |-> <<"ann", "bob">>, last_names |-> <<"lee">>,
     profiles |-> Profiles,
     conversations |-> [t \in {"default"} |-> LongTemplate]]

LongParams ==
    [owner_name : {OwnerName}, start_date : {0}, end_date : {0, EndLong},
     installed_apps : {{"Chrome"}}, network_size : {-1, 0, 1},
     num_messages : {LongTarget}, scenario : {"General Use"}]

\* The params a window hands to its worker: an empty and a short time range,
\* a rejected, an empty and a one-contact network.
WorkerParams ==
    [owner_name : {OwnerName}, start_date : {0}, end_date : {0, EndShort},
     installed_apps : {{"Chrome"}}, network_size : {-1, 0, 1},
     num_messages : {MaxMessages}, scenario : {"General Use"}]

\* The params of the runs followed up to the built graph: every profile of
\* the catalog and a scenario name the catalog has no profile for.
GraphParams ==
    [owner_name : {OwnerName}, start_date : {0}, end_date : {EndLong},
     installed_apps : InstalledApps, network_size : NetworkSizes \cup {3},
     num_messages : {MaxMessages},
     scenario : {"General Use", "Corporate", "Travel"}]

-----------------------------------------------------------------------------
(* CommunicationEngine.generate_social_graph *)

\* [f"{fn} {ln}" for fn in first_names for ln in last_names]
CrossNames(scen) ==
    LET fns == scen.first_names
        lns == scen.last_names
    IN  [k \in 1..(Len(fns) * Len(lns)) |->
            FullName(fns[((k - 1) \div Len(lns)) + 1],
                     lns[((k - 1) % Len(lns)) + 1])]

\* ... if f"{fn} {ln}" != owner_name
AvailableNames(owner_name, scen) ==
    SelectSeq(CrossNames(scen), LAMBDA n : n # owner_name)

\* while len(available_names) < network_size: append(self.fake.name())
PaddedNames(available_names, network_size) ==
    {available_names \o pad :
        pad \in [1..Max(network_size - Len(available_names), 0) -> FakerNames]}

\* random.sample(population, k) raises ValueError when k < 0
SampleRaises(owner_name, scen, network_size) ==
    Min(Max(Len(AvailableNames(owner_name, scen)), network_size),
        network_size) < 0

\* random.sample(population, k): k distinct positions of the list
Samples(population, k) ==
    {S \in SUBSET (1..Len(population)) : Cardinality(S) = k}

\* A variant that offers WhatsApp whether or not it is installed.
MutValidPlatforms(installed_apps) ==
    <<"Messages (SMS)", "Phone", "WhatsApp">>

ValidPlatforms(installed_apps) ==
    <<"Messages (SMS)", "Phone">>
        \o (IF "WhatsApp" \in installed_apps THEN <<"WhatsApp">> ELSE <<>>)

RoleTopics(role) ==
    IF role = "Colleague" THEN <<"project_kickoff">>
    ELSE <<"lunch_sushi", "weekend_plans">>

Contact(role, installed_apps, phone) ==
    [Role |-> role, Platforms |-> ValidPlatforms(installed_apps),
     Topics |-> RoleTopics(role), PhoneNumber |-> phone]

\* graph[name] = {...} for name in selected_contacts: a dict, so a name
\* selected twice is one entry.
GraphsOver(names, installed_apps) ==
    {[n \in names |-> Contact(role[n], installed_apps, phone[n])] :
        role \in [names -> Roles], phone \in [names -> PhoneNumbers]}

\* Every graph generate_social_graph can return (when it does not raise).
SocialGraphs(owner_name, scen, network_size, installed_apps) ==
    UNION {
        UNION {GraphsOver({population[i] : i \in S}, installed_apps) :
                  S \in Samples(population,
                                Min(Len(population), network_size))} :
        population \in PaddedNames(AvailableNames(owner_name, scen),
                                   network_size)}

\* allowed_topics = scenarios.get("profiles", {}).get(scenario_name, ["default"])
AllowedTopics(scen, scenario_name) ==
    IF scenario_name \in DOMAIN scen.profiles THEN scen.profiles[scenario_name]
    ELSE {"default"}

\* A variant of the filter without the fallback to ["default"].
MutFilterTopics(g, allowed_topics) ==
    [n \in DOMAIN g |->
        [g[n] EXCEPT !.Topics =
            SelectSeq(g[n].Topics, LAMBDA t : t \in allowed_topics)]]

\* The scenario-profile filter of run(), with its fallback to ["default"].
FilterTopics(g, allowed_topics) ==
    [n \in DOMAIN g |->
        LET kept == SelectSeq(g[n].Topics, LAMBDA t : t \in allowed_topics)
        IN  [g[n] EXCEPT !.Topics = IF kept = <<>> THEN <<"default">> ELSE kept]]

-----------------------------------------------------------------------------
(* GeoEngine *)

\* A position given in 1/10000 degree.  Positions are kept in units of
\* 1/600000 degree, in which minute / 60.0 of a difference is exact.
Pos(lat, lon) == <<lat * 60, lon * 60>>

Home == Pos(406781, -739441)
Work == Pos(407488, -739854)
Waypoints ==
    [w \in {"coffee", "gym", "park", "grocery"} |->
        CASE w = "coffee" -> Pos(406925, -739910)
          [] w = "gym" -> Pos(407410, -739935)
          [] w = "park" -> Pos(406602, -739690)
          [] OTHER -> Pos(406850, -739780)]

\* dt.hour, dt.minute and dt.weekday() of a time counted in seconds from a
\* Monday, 00:00:00.
Hour(dt) == (dt \div 3600) % 24
Minute(dt) == (dt \div 60) % 60
Weekday(dt) == (dt \div 86400) % 7

\* _interpolate(start, end, minute / 60.0)
Interpolate(start, end, minute) ==
    <<start[1] + ((end[1] - start[1]) \div 60) * minute,
      start[2] + ((end[2] - start[2]) \div 60) * minute>>

\* _jitter(lat, lon, amount) with the two random.uniform draws `draw`
Jitter(pos, draw) == <<pos[1] + draw[1], pos[2] + draw[2]>>

\* A variant without transit: at work in the weekday office hours, at home
\* at any other time.
MutTargetPos(dt) ==
    IF Weekday(dt) < 5 /\ 9 <= Hour(dt) /\ Hour(dt) < 17 THEN Work ELSE Home

\* target_pos of get_location_for_time (lines 42-76)
TargetPos(dt) ==
    LET hour == Hour(dt)
        minute == Minute(dt)
        is_weekend == Weekday(dt) >= 5
    IN  IF is_weekend
        THEN CASE 10 <= hour /\ hour <= 12 -> Waypoints["coffee"]
               [] 13 <= hour /\ hour <= 16 -> Waypoints["park"]
               [] 17 <= hour /\ hour <= 18 -> Waypoints["grocery"]
               [] OTHER -> Home
        ELSE CASE 7 <= hour /\ hour < 8 ->
                    Interpolate(Home, Waypoints["coffee"], minute)
               [] 8 <= hour /\ hour < 9 ->
                    Interpolate(Waypoints["coffee"], Work, minute)
               [] 9 <= hour /\ hour < 17 -> Work
               [] 17 <= hour /\ hour < 18 ->
                    Interpolate(Work, Waypoints["gym"], minute)
               [] 18 <= hour /\ hour < 19 -> Waypoints["gym"]
               [] 19 <= hour /\ hour < 20 ->
                    Interpolate(Waypoints["gym"], Home, minute)
               [] OTHER -> Home

\* A variant that moves from the previous position half way to the target.
MutLocationForTime(dt, last, draw) ==
    Jitter(<<(last[1] + TargetPos(dt)[1]) \div 2,
             (last[2] + TargetPos(dt)[2]) \div 2>>, draw)

\* The value get_location_for_time(dt) returns when self.last_pos is `last`
\* and _jitter draws `draw` (lines 42-80): last_pos is not read.
LocationForTime(dt, last, draw) == Jitter(TargetPos(dt), draw)

\* The times asked for: half past every hour of a Monday and of a Saturday.
GeoTimes ==
    {day * 86400 + hour * 3600 + 30 * 60 : day \in {0, 5}, hour \in 0..23}

\* The pairs of random.uniform(-0.0015, 0.0015) draws considered: the two
\* ends of the range, in opposite directions.
JitterDraws == {<<d, -d>> : d \in {-JitterAmount, JitterAmount}}

\* The times of the weekly routine: every hour of a Monday on the hour and at
\* half past, of a Saturday on the hour and of a Sunday at half past.
RoutineTimes ==
    {hour * 3600 + minute * 60 : hour \in 0..23, minute \in {0, 30}}
        \cup {5 * 86400 + hour * 3600 : hour \in 0..23}
        \cup {6 * 86400 + hour * 3600 + 30 * 60 : hour \in 0..23}

\* One pair of random.uniform draws, at the ends of the range.
RoutineDraws == {<<JitterAmount, -JitterAmount>>}

-----------------------------------------------------------------------------
(* Helpers of the stepping loop *)

\* dt.strftime(fmt): the formatted text, kept as the format and the second it
\* names; Instant reads the second back (datetime.strptime).
Strftime(t, fmt) == [fmt |-> fmt, t |-> t]
SqlFormat == "%Y-%m-%d %H:%M:%S"
IsoFormat == "%Y-%m-%dT%H:%M:%SZ"
Instant(stamp) == stamp.t

\* content.split(".")[-1].lower()
Lower(ext) ==
    CASE ext = "JPG" -> "jpg"
      [] ext = "PNG" -> "png"
      [] ext = "PDF" -> "pdf"
      [] OTHER -> ext

IsImage(content) ==
    content.dot /\ content.len < 40 /\ Lower(content.ext) \in {"jpg", "png", "jpeg"}
IsDocument(content) ==
    content.dot /\ content.len < 40 /\ Lower(content.ext) \in {"pdf", "docx"}

\* self.comm_engine.humanizer.humanize(content, intensity=1)
Humanize(content) == [source |-> content.text, humanized |-> TRUE]

\* convo_lines = conversations.get(topic_key, conversations['default'])
ConvoLines(scen, topic_key) ==
    IF topic_key \in DOMAIN scen.conversations THEN scen.conversations[topic_key]
    ELSE scen.conversations["default"]

Range(seq) == {seq[i] : i \in DOMAIN seq}

\* burst_clock after the first i lines, given the delay drawn for each line
RECURSIVE BurstClock(_, _, _)
BurstClock(start, delays, i) ==
    IF i = 0 THEN start ELSE BurstClock(start, delays, i - 1) + delays[i]

\* The queue entry built for one conversation line (lines 200-238).
LineEntry(line, ts, owner_name, partner_name, p_data, platform) ==
    LET is_owner == line.role = "Owner"
    IN  [ts |-> ts,
         data |->
            [type |-> "msg", Platform |-> platform,
             Sender |-> IF is_owner THEN owner_name ELSE partner_name,
             Recipient |-> IF is_owner THEN partner_name ELSE owner_name,
             SenderNum |-> IF is_owner THEN "Self" ELSE p_data.PhoneNumber,
             RecipientNum |-> IF is_owner THEN p_data.PhoneNumber ELSE "Self",
             Direction |-> IF is_owner THEN "Outgoing" ELSE "Incoming",
             Body |-> Humanize(line.content),
             Attachment |-> IF IsImage(line.content)
                            THEN "/sdcard/DCIM/" \o line.content.text
                            ELSE "None"]]

\* A variant of the follow-up that is stamped with the call's own time.
MutFollowUpEntry(burst_clock, owner_name, partner_name, p_data) ==
    [ts |-> burst_clock,
     data |->
        [type |-> "msg", Platform |-> "Messages (SMS)",
         Sender |-> owner_name, Recipient |-> partner_name,
         SenderNum |-> "Self", RecipientNum |-> p_data.PhoneNumber,
         Direction |-> "Outgoing", Body |-> FollowUpBody,
         Attachment |-> "None"]]

\* The follow-up text queued for a missed call (lines 177-184).
FollowUpEntry(burst_clock, owner_name, partner_name, p_data) ==
    [ts |-> burst_clock + FollowUpDelay,
     data |->
        [type |-> "msg", Platform |-> "Messages (SMS)",
         Sender |-> owner_name, Recipient |-> partner_name,
         SenderNum |-> "Self", RecipientNum |-> p_data.PhoneNumber,
         Direction |-> "Outgoing", Body |-> FollowUpBody,
         Attachment |-> "None"]]

\* The call record appended to all_calls (lines 186-192).
CallRecord(burst_clock, owner_name, partner_name, p_data, direction, status, duration) ==
    [Caller |-> IF direction = "Incoming" THEN partner_name ELSE owner_name,
     CallerNum |-> IF direction = "Incoming" THEN p_data.PhoneNumber ELSE "Self",
     Direction |-> direction, Status |-> status, Duration |-> duration,
     Timestamp |-> Strftime(burst_clock, SqlFormat)]

\* The message appended to all_messages for a popped entry (lines 253-260).
MessageRecord(ts, data) ==
    [Platform |-> data.Platform, Sender |-> data.Sender,
     Recipient |-> data.Recipient, SenderNum |-> data.SenderNum,
     RecipientNum |-> data.RecipientNum, Direction |-> data.Direction,
     Body |-> data.Body, Timestamp |-> Strftime(ts, SqlFormat),
     Attachment |-> data.Attachment]

\* The sample appended to geo_points for a popped entry (lines 246-250).
GeoRecord(ts) == [timestamp |-> Strftime(ts, IsoFormat)]

\* The browser-history entry created for a document line (lines 222-226).
DocViewEntry(content, burst_clock) ==
    [URL |-> "https://docs.google.com/viewer?file=" \o content.text,
     Title |-> "View - " \o content.text,
     Timestamp |-> Strftime(burst_clock - DocViewLead, SqlFormat)]

\* The browser-history entry of a random site visit (lines 271-274).
SiteEntry(site, ts) ==
    [URL |-> site.url, Title |-> site.title,
     Timestamp |-> Strftime(ts, SqlFormat)]

\* A variant of the loop's progress value without the base of 25.
MutLoopProgress(count, total_msgs) ==
    Min((count * 60) \div Max(total_msgs, 1), 85)

\* 25 + int((msg_count / max(total_msgs, 1)) * 60), capped at 85
LoopProgress(count, total_msgs) ==
    Min(25 + ((count * 60) \div Max(total_msgs, 1)), 85)

\* A variant of the quota test that breaks one message late.
MutQuotaReached(count, total_msgs) == count > total_msgs

\* if msg_count >= total_msgs: break
QuotaReached(count, total_msgs) == count >= total_msgs

-----------------------------------------------------------------------------
(* State *)

PcValues == {"start", "setup", "graph", "loop", "process", "write", "archive",
             "done", "returned", "error"}
Terminal == {"done", "returned", "error"}

\* A variant in which a connected call may last no time.
MutDurationChoices == {0, DurationMax}

\* A variant in which a line may follow the previous one with no delay.
MutDelayChoices == {0, DelayMax}

GapChoices == {GapMin, GapMax}
DelayChoices == {DelayMin, DelayMax}
\* The delays random.randint(10, 90) draws for the lines of a template, one
\* per line.
DelayVectors(convo_lines) ==
    IF Len(convo_lines) <= MaxFreeLines
    THEN [DOMAIN convo_lines -> DelayChoices]
    ELSE {[i \in DOMAIN convo_lines |-> d] : d \in DelayChoices}

DurationChoices == {DurationMin, DurationMax}

\* What the writers of lines 284-313 were given: create_sms_db,
\* create_whatsapp_db and generate_notification_history get all_messages,
\* generate_call_log gets all_calls, generate_cell_tower_db,
\* generate_track_file and generate_wifi_scan_logs get geo_points.
HandOff(messages, calls, points) ==
    [messages |-> messages, calls |-> calls, geo |-> points]
NothingHandedOff == [messages |-> <<>>, calls |-> <<>>, geo |-> <<>>]

\* No get_location_for_time call is remembered.
NoCall == [n |-> 0, dt |-> -1, jitter |-> <<0, 0>>, pos |-> <<0, 0>>]

\* GeoEngine.__init__ (line 26)
GeoInit ==
    /\ last_pos = Home
    /\ loc_seen = NoCall
    /\ loc_last = NoCall
    /\ loc_calls = 0

\* SQLiteDB.__init__ (lines 11-15), the database file still empty
DbInit ==
    /\ db_pc = "new"
    /\ db_conn = "none"
    /\ db_pending = <<>>
    /\ db_rows = <<>>
    /\ db_calls = <<>>
    /\ db_block_exc = "none"
    /\ db_raised = "none"

\* The manager is run without a GeneratorWorker and a window.
NoWorker ==
    /\ worker_pc = "none"
    /\ cancel_requested = FALSE
    /\ signal = "none"
    /\ window = "idle"

\* GeneratorManager.__init__ and the arguments of run(), drawn from the
\* given sets.
RunInit(paramsSet, catalog, configs) ==
    /\ params \in paramsSet
    /\ scenarios = catalog
    /\ config \in configs
    /\ pc = "start"
    /\ error = "none"
    /\ is_cancelled = FALSE
    /\ graph = <<>>
    /\ current_time = params.start_date
    /\ burst_queue = <<>>
    /\ all_messages = <<>>
    /\ all_calls = <<>>
    /\ geo_points = <<>>
    /\ browser_history = <<>>
    /\ image_files = <<>>
    /\ msg_count = 0
    /\ progress_log = <<>>
    /\ handed_off = NothingHandedOff

Init ==
    /\ RunInit(AllParams, ScenarioCatalog, Configs)
    /\ GeoInit
    /\ DbInit
    /\ NoWorker

end_time == params.end_date

\* A variant of the loop condition that stops one shortest gap early.
MutLoopCondition == current_time + GapMin < end_time

\* `while current_time < end_time:` (line 144)
LoopCondition == current_time < end_time

\* A variant that starts a new interaction while one sub-event is queued.
MutIdle == Len(burst_queue) <= 1

\* `if not burst_queue:` (line 148)
Idle == burst_queue = <<>>

\* A variant of the test of line 152 that never breaks.
MutCrossesEnd(clock) == FALSE

\* `if current_time >= end_time: break` (line 152), current_time being
\* `clock` after the gap was added
CrossesEnd(clock) == clock >= end_time
total_msgs == params.num_messages

Progress(val) == progress_log' = Append(progress_log, val)

Raise(kind) == pc' = "error" /\ error' = kind

-----------------------------------------------------------------------------
(* GeneratorManager.stop, called from another thread while run() executes *)

Stop ==
    /\ pc \notin Terminal
    /\ ~is_cancelled
    /\ is_cancelled' = TRUE
    /\ UNCHANGED <<geoVars, dbVars, workerVars, handed_off, params, scenarios,
                   config, pc, error, graph, loopVars, progress_log>>

-----------------------------------------------------------------------------
(* GeneratorManager.run *)

\* lines 55-59
Begin ==
    /\ pc = "start"
    /\ is_cancelled' = FALSE
    /\ Progress(5)
    /\ pc' = "setup"
    /\ UNCHANGED <<geoVars, dbVars, workerVars, handed_off, params, scenarios,
                   config, error, graph, loopVars>>

\* lines 61-62, cancelled
SetupCancelled ==
    /\ pc = "setup"
    /\ is_cancelled
    /\ pc' = "returned"
    /\ UNCHANGED <<geoVars, dbVars, workerVars, handed_off, params, scenarios,
                   config, error, is_cancelled, graph, loopVars,
                   progress_log>>

\* lines 61-111
Setup ==
    /\ pc = "setup"
    /\ ~is_cancelled
    /\ Progress(15)
    /\ pc' = "graph"
    /\ UNCHANGED <<geoVars, dbVars, workerVars, handed_off, params, scenarios,
                   config, error, is_cancelled, graph, loopVars>>

\* line 115 when random.sample raises
BuildGraphRaises ==
    /\ pc = "graph"
    /\ SampleRaises(params.owner_name, scenarios, params.network_size)
    /\ Raise("ValueError")
    /\ UNCHANGED <<geoVars, dbVars, workerVars, handed_off, params, scenarios,
                   config, is_cancelled, graph, loopVars, progress_log>>

\* lines 113-142
BuildGraph ==
    /\ pc = "graph"
    /\ ~SampleRaises(params.owner_name, scenarios, params.network_size)
    /\ \E g \in SocialGraphs(params.owner_name, scenarios, params.network_size,
                             params.installed_apps) :
          graph' = FilterTopics(g, AllowedTopics(scenarios, params.scenario))
    /\ Progress(25)
    /\ current_time' = params.start_date
    /\ burst_queue' = <<>>
    /\ all_messages' = <<>>
    /\ all_calls' = <<>>
    /\ geo_points' = <<>>
    /\ browser_history' = <<>>
    /\ image_files' = <<>>
    /\ msg_count' = 0
    /\ pc' = "loop"
    /\ UNCHANGED <<geoVars, dbVars, workerVars, handed_off, params, scenarios,
                   config, error, is_cancelled>>

\* line 144, condition false
LoopExit ==
    /\ pc = "loop"
    /\ ~LoopCondition
    /\ pc' = "write"
    /\ UNCHANGED <<geoVars, dbVars, workerVars, handed_off, params, scenarios,
                   config, error, is_cancelled, graph, loopVars,
                   progress_log>>

\* line 145
LoopCancelled ==
    /\ pc = "loop"
    /\ LoopCondition
    /\ is_cancelled
    /\ pc' = "returned"
    /\ UNCHANGED <<geoVars, dbVars, workerVars, handed_off, params, scenarios,
                   config, error, is_cancelled, graph, loopVars,
                   progress_log>>

\* An iteration that passed lines 144-145.
IterationStarts ==
    /\ pc = "loop"
    /\ LoopCondition
    /\ ~is_cancelled

\* lines 148-153, the gap reaches end_time
ScheduleBreak ==
    /\ IterationStarts
    /\ Idle
    /\ \E gap_seconds \in GapChoices :
          /\ CrossesEnd(current_time + gap_seconds)
          /\ current_time' = current_time + gap_seconds
    /\ pc' = "write"
    /\ UNCHANGED <<geoVars, dbVars, workerVars, handed_off, params, scenarios,
                   config, error, is_cancelled, graph, burst_queue,
                   all_messages, all_calls, geo_points, browser_history,
                   image_files, msg_count, progress_log>>

\* lines 148-156, random.choice([]) raises IndexError
ScheduleNoParticipant ==
    /\ IterationStarts
    /\ Idle
    /\ \E gap_seconds \in GapChoices :
          /\ ~CrossesEnd(current_time + gap_seconds)
          /\ current_time' = current_time + gap_seconds
    /\ DOMAIN graph = {}
    /\ Raise("IndexError")
    /\ UNCHANGED <<geoVars, dbVars, workerVars, handed_off, params, scenarios,
                   config, is_cancelled, graph, burst_queue, all_messages,
                   all_calls, geo_points, browser_history, image_files,
                   msg_count, progress_log>>

\* lines 148-192, platform == "Phone"
ScheduleCall ==
    /\ IterationStarts
    /\ Idle
    /\ \E gap_seconds \in GapChoices, partner_name \in DOMAIN graph,
          direction \in {"Incoming", "Outgoing"}, missed \in BOOLEAN,
          duration \in DurationChoices :
          LET burst_clock == current_time + gap_seconds
              p_data == graph[partner_name]
              is_missed == direction = "Incoming" /\ missed
          IN  /\ ~CrossesEnd(burst_clock)
              /\ "Phone" \in Range(p_data.Platforms)
              /\ current_time' = burst_clock
              /\ burst_queue' = burst_queue \o
                    IF is_missed
                    THEN <<FollowUpEntry(burst_clock, params.owner_name,
                                         partner_name, p_data)>>
                    ELSE <<>>
              /\ all_calls' =
                    Append(all_calls,
                           CallRecord(burst_clock, params.owner_name,
                                      partner_name, p_data, direction,
                                      IF is_missed THEN "Missed" ELSE "Connected",
                                      IF is_missed THEN 0 ELSE duration))
    /\ pc' = "process"
    /\ UNCHANGED <<geoVars, dbVars, workerVars, handed_off, params, scenarios,
                   config, error, is_cancelled, graph, all_messages,
                   geo_points, browser_history, image_files, msg_count,
                   progress_log>>

\* lines 148-164 and 194-238, a message flow
ScheduleConversation ==
    /\ IterationStarts
    /\ Idle
    /\ \E gap_seconds \in GapChoices, partner_name \in DOMAIN graph :
       \E platform \in Range(graph[partner_name].Platforms) \ {"Phone"},
          topic_key \in Range(graph[partner_name].Topics) :
          LET start == current_time + gap_seconds
              p_data == graph[partner_name]
              convo_lines == ConvoLines(scenarios, topic_key)
          IN  /\ ~CrossesEnd(start)
              /\ \E delays \in DelayVectors(convo_lines) :
                    LET clock(i) == BurstClock(start, delays, i)
                        docs == SelectSeq([i \in DOMAIN convo_lines |-> i],
                                    LAMBDA i : IsDocument(convo_lines[i].content))
                        imgs == SelectSeq([i \in DOMAIN convo_lines |-> i],
                                    LAMBDA i : IsImage(convo_lines[i].content))
                    IN  /\ burst_queue' = burst_queue \o
                              [i \in DOMAIN convo_lines |->
                                  LineEntry(convo_lines[i], clock(i),
                                            params.owner_name, partner_name,
                                            p_data, platform)]
                        /\ browser_history' = browser_history \o
                              [k \in DOMAIN docs |->
                                  DocViewEntry(convo_lines[docs[k]].content,
                                               clock(docs[k]))]
                        /\ image_files' = image_files \o
                              [k \in DOMAIN imgs |->
                                  [filename |-> convo_lines[imgs[k]].content.text,
                                   timestamp |-> clock(imgs[k])]]
              /\ current_time' = start
    /\ pc' = "process"
    /\ UNCHANGED <<geoVars, dbVars, workerVars, handed_off, params, scenarios,
                   config, error, is_cancelled, graph, all_messages,
                   all_calls, geo_points, msg_count, progress_log>>

\* lines 241-261: pop one queued sub-event if there is one and emit it
PopAndEmit ==
    IF burst_queue = <<>>
    THEN UNCHANGED <<burst_queue, geo_points, all_messages, msg_count>>
    ELSE LET ts == Head(burst_queue).ts
             data == Head(burst_queue).data
         IN  /\ burst_queue' = Tail(burst_queue)
             /\ geo_points' = Append(geo_points, GeoRecord(ts))
             /\ IF data.type = "msg"
                THEN /\ all_messages' = Append(all_messages, MessageRecord(ts, data))
                     /\ msg_count' = msg_count + 1
                ELSE UNCHANGED <<all_messages, msg_count>>

\* lines 267-274: with a sub-event popped, random.random() < 0.05 and a
\* non-empty common_urls list add a visit to one of the sites.
RandomBrowsing ==
    IF burst_queue = <<>>
    THEN UNCHANGED browser_history
    ELSE \/ UNCHANGED browser_history
         \/ \E site \in Range(config.common_urls) :
               browser_history' =
                   Append(browser_history, SiteEntry(site, Head(burst_queue).ts))

\* lines 276-280: report progress, test the message quota
EndIteration ==
    /\ Progress(LoopProgress(msg_count', total_msgs))
    /\ pc' = IF QuotaReached(msg_count', total_msgs) THEN "write" ELSE "loop"

\* lines 264-265 when generate_financial_receipts raises: its path.mkdir is
\* outside any try, so an OSError unwinds the loop after the sub-event was
\* emitted.
ReceiptRaises ==
    /\ burst_queue # <<>>
    /\ PopAndEmit
    /\ Raise("OSError")
    /\ UNCHANGED <<geoVars, dbVars, workerVars, handed_off, params, scenarios,
                   config, is_cancelled, graph, current_time, all_calls,
                   browser_history, image_files, progress_log>>

\* A variant that leaves a sub-event dated at or after end_time in the queue
\* and goes on to the next iteration.
MutProcessQueue ==
    IF burst_queue # <<>> /\ Head(burst_queue).ts >= end_time
    THEN /\ pc' = "loop"
         /\ UNCHANGED <<geoVars, dbVars, workerVars, handed_off, params,
                        scenarios, config, error, is_cancelled, graph,
                        loopVars, progress_log>>
    ELSE \/ /\ PopAndEmit
            /\ RandomBrowsing
            /\ EndIteration
            /\ UNCHANGED <<geoVars, dbVars, workerVars, handed_off, params,
                           scenarios, config, error, is_cancelled, graph,
                           current_time, all_calls, image_files>>
         \/ ReceiptRaises

\* lines 240-280: pop one queued sub-event if there is one, with the side
\* effects of lines 263-274, then report progress and test the message quota.
ProcessQueue ==
    \/ /\ PopAndEmit
       /\ RandomBrowsing
       /\ EndIteration
       /\ UNCHANGED <<geoVars, dbVars, workerVars, handed_off, params,
                      scenarios, config, error, is_cancelled, graph,
                      current_time, all_calls, image_files>>
    \/ ReceiptRaises

\* lines 240-280 of the iteration that scheduled an interaction
Process ==
    /\ pc = "process"
    /\ ProcessQueue

\* lines 144-148 and 240-280 of an iteration that found the queue non-empty
Drain ==
    /\ IterationStarts
    /\ burst_queue # <<>>
    /\ ProcessQueue

\* lines 282-329
WriteArtifacts ==
    /\ pc = "write"
    /\ handed_off' = HandOff(all_messages, all_calls, geo_points)
    /\ progress_log' = progress_log \o <<90, 95>>
    /\ pc' = "archive"
    /\ UNCHANGED <<geoVars, dbVars, workerVars, params, scenarios, config,
                   error, is_cancelled, graph, loopVars>>

\* line 330, cancelled
ArchiveCancelled ==
    /\ pc = "archive"
    /\ is_cancelled
    /\ pc' = "returned"
    /\ UNCHANGED <<geoVars, dbVars, workerVars, handed_off, params, scenarios,
                   config, error, is_cancelled, graph, loopVars,
                   progress_log>>

\* lines 330-338
Archive ==
    /\ pc = "archive"
    /\ ~is_cancelled
    /\ Progress(100)
    /\ pc' = "done"
    /\ UNCHANGED <<geoVars, dbVars, workerVars, handed_off, params, scenarios,
                   config, error, is_cancelled, graph, loopVars>>

Run ==
    \/ Begin \/ SetupCancelled \/ Setup \/ BuildGraphRaises \/ BuildGraph
    \/ LoopExit \/ LoopCancelled \/ ScheduleBreak \/ ScheduleNoParticipant
    \/ ScheduleCall \/ ScheduleConversation \/ Process \/ Drain
    \/ WriteArtifacts \/ ArchiveCancelled \/ Archive

Next == Stop \/ Run

Spec == Init /\ [][Next]_vars

\* run() executes on its own thread and is never starved: each of its steps
\* is eventually taken.  stop() may or may not be called.
FairSpec == Spec /\ WF_vars(Run)

-----------------------------------------------------------------------------
(* GeneratorWorker and the window's slots *)

\* MainWindow.start_generation has enabled the cancel button and started
\* the worker thread; GeneratorWorker.manager is still None.
WorkerInit ==
    /\ RunInit(WorkerParams, ScenarioCatalog, {[common_urls |-> <<>>]})
    /\ GeoInit
    /\ DbInit
    /\ worker_pc = "started"
    /\ cancel_requested = FALSE
    /\ signal = "none"
    /\ window = "generating"

\* self.manager = GeneratorManager(...) in GeneratorWorker.run
CreateManager ==
    /\ worker_pc = "started"
    /\ worker_pc' = "running"
    /\ UNCHANGED <<runVars, geoVars, dbVars, cancel_requested, signal,
                   window>>

\* MainWindow.cancel_generation while the cancel button is enabled:
\* worker.stop() reaches manager.stop() only if the manager exists, and
\* the button is disabled.
CancelGeneration ==
    /\ window = "generating"
    /\ ~cancel_requested
    /\ cancel_requested' = TRUE
    /\ is_cancelled' = IF worker_pc = "started" THEN is_cancelled ELSE TRUE
    /\ UNCHANGED <<geoVars, dbVars, worker_pc, signal, window, handed_off,
                   params, scenarios, config, pc, error, graph, loopVars,
                   progress_log>>

\* self.manager.run(...) in GeneratorWorker.run, one step of it
WorkerRun == worker_pc = "running" /\ Run

\* self.finished.emit(), after manager.run() returned in either way
EmitFinished ==
    /\ worker_pc = "running"
    /\ pc \in {"done", "returned"}
    /\ worker_pc' = "ended"
    /\ signal' = "finished"
    /\ UNCHANGED <<runVars, geoVars, dbVars, cancel_requested, window>>

\* except Exception as e: self.error.emit(str(e))
EmitError ==
    /\ worker_pc = "running"
    /\ pc = "error"
    /\ worker_pc' = "ended"
    /\ signal' = "error"
    /\ UNCHANGED <<runVars, geoVars, dbVars, cancel_requested, window>>

\* MainWindow.generation_finished: progress bar at 100, "Generation
\* Complete!"
GenerationFinished ==
    /\ signal = "finished"
    /\ window = "generating"
    /\ window' = "complete"
    /\ UNCHANGED <<runVars, geoVars, dbVars, worker_pc, cancel_requested,
                   signal>>

\* MainWindow.generation_error: "Generation Failed"
GenerationError ==
    /\ signal = "error"
    /\ window = "generating"
    /\ window' = "failed"
    /\ UNCHANGED <<runVars, geoVars, dbVars, worker_pc, cancel_requested,
                   signal>>

WorkerNext ==
    \/ CreateManager \/ CancelGeneration \/ WorkerRun \/ EmitFinished
    \/ EmitError \/ GenerationFinished \/ GenerationError

WorkerSpec == WorkerInit /\ [][WorkerNext]_vars

\* run() up to the end of line 142: the social graph is built and filtered.
GraphInit ==
    /\ RunInit(GraphParams, ScenarioCatalog, {[common_urls |-> <<>>]})
    /\ GeoInit
    /\ DbInit
    /\ NoWorker

GraphNext ==
    \/ Stop \/ Begin \/ SetupCancelled \/ Setup \/ BuildGraphRaises
    \/ BuildGraph

GraphSpec == GraphInit /\ [][GraphNext]_vars

\* get_location_for_time(dt) (lines 38-80).  loc_last records the call,
\* loc_seen keeps any one of the earlier calls.
LocationCall(times, draws) ==
    /\ loc_calls < MaxGeoCalls
    /\ \E dt \in times, draw \in draws, remember \in BOOLEAN :
          LET pos == LocationForTime(dt, last_pos, draw)
          IN  /\ last_pos' = pos
              /\ loc_last' = [n |-> loc_calls + 1, dt |-> dt, jitter |-> draw,
                              pos |-> pos]
              /\ loc_seen' = IF remember /\ loc_last # NoCall THEN loc_last
                             ELSE loc_seen
    /\ loc_calls' = loc_calls + 1
    /\ UNCHANGED <<runVars, dbVars, workerVars>>

GetLocation == LocationCall(GeoTimes, JitterDraws)

\* get_location_for_time(dt) at the times of the weekly routine
GetRoutineLocation == LocationCall(RoutineTimes, RoutineDraws)

\* The params of a run that has not been started.
IdleParams ==
    [owner_name |-> OwnerName, start_date |-> 0, end_date |-> EndLong,
     installed_apps |-> {"Chrome"}, network_size |-> 1,
     num_messages |-> MaxMessages, scenario |-> "General Use"]

IdleRun == RunInit({IdleParams}, ScenarioCatalog, {[common_urls |-> <<>>]})

\* A GeoEngine asked for locations, in any order of times.
GeoEngineInit == IdleRun /\ GeoInit /\ DbInit /\ NoWorker

GeoSpec == GeoEngineInit /\ [][GetLocation]_vars

\* A GeoEngine asked for its locations over the week.
RoutineInit == IdleRun /\ GeoInit /\ DbInit /\ NoWorker

RoutineSpec == RoutineInit /\ [][GetRoutineLocation]_vars

-----------------------------------------------------------------------------
(* SQLiteDB: `with SQLiteDB(db_path, logger) as c:` *)

\* The rows a with-block can insert and the exceptions it can raise: an
\* sqlite3 error of a statement, or any other exception of its code.
RowValues == {"row a", "row b", "row c"}
BlockExceptions == {"sqlite3.IntegrityError", "KeyError"}

\* A variant of __exit__ that commits whether or not the block raised.
MutExitCalls(exc_type) == <<"commit", "close">>

\* The connection methods __exit__ calls (lines 32-44): rollback when it is
\* given an exception type, commit when not, then close.
ExitCalls(exc_type) ==
    <<IF exc_type # "none" THEN "rollback" ELSE "commit", "close">>

\* __enter__ (lines 17-25): the connection is opened, the block is entered
DbEnter ==
    /\ db_pc = "new"
    /\ db_conn' = "open"
    /\ db_pc' = "block"
    /\ UNCHANGED <<runVars, workerVars, geoVars, db_pending, db_rows,
                   db_calls, db_block_exc, db_raised>>

\* __enter__ (lines 17-29): sqlite3.connect raises, the error is logged and
\* raised again; the block and __exit__ do not run
DbEnterRaises ==
    /\ db_pc = "new"
    /\ db_raised' = "sqlite3.OperationalError"
    /\ db_pc' = "raised"
    /\ UNCHANGED <<runVars, workerVars, geoVars, db_conn, db_pending, db_rows,
                   db_calls, db_block_exc>>

\* c.execute("INSERT ...") in the block
DbExecute ==
    /\ db_pc = "block"
    /\ Len(db_rows) + Len(db_pending) < MaxRows
    /\ \E row \in RowValues : db_pending' = Append(db_pending, row)
    /\ UNCHANGED <<runVars, workerVars, geoVars, db_pc, db_conn, db_rows,
                   db_calls, db_block_exc, db_raised>>

\* __exit__(exc_type, exc_val, exc_tb) (lines 31-44) after a block that ended
\* with exc_type.  self.conn is set.  A commit or rollback that raises
\* sqlite3.Error (`ok` false) is logged and not raised; close() ends the
\* connection and with it any transaction left open.  __exit__ returns None,
\* so the with statement raises the block's exception again.
Exit(exc_type, ok) ==
    /\ db_pc = "block"
    /\ db_calls' = ExitCalls(exc_type)
    /\ db_rows' = IF ExitCalls(exc_type)[1] = "commit" /\ ok
                  THEN db_rows \o db_pending
                  ELSE db_rows
    /\ db_pending' = <<>>
    /\ db_conn' = "closed"
    /\ db_block_exc' = exc_type
    /\ db_raised' = exc_type
    /\ db_pc' = IF exc_type = "none" THEN "closed" ELSE "raised"
    /\ UNCHANGED <<runVars, workerVars, geoVars>>

\* the block finishes without an exception
DbBlockReturns == \E ok \in BOOLEAN : Exit("none", ok)

\* the block raises
DbBlockRaises == \E exc \in BlockExceptions, ok \in BOOLEAN : Exit(exc, ok)

\* SQLiteDB(db_path, logger) is constructed again for the same file
\* (lines 11-15), after the earlier with statement was left.
DbNew ==
    /\ db_pc \in {"closed", "raised"}
    /\ db_pc' = "new"
    /\ db_conn' = "none"
    /\ db_calls' = <<>>
    /\ db_block_exc' = "none"
    /\ db_raised' = "none"
    /\ UNCHANGED <<runVars, workerVars, geoVars, db_pending, db_rows>>

DbSpecInit == IdleRun /\ GeoInit /\ DbInit /\ NoWorker

DbNext ==
    \/ DbEnter \/ DbEnterRaises \/ DbExecute \/ DbBlockReturns
    \/ DbBlockRaises \/ DbNew

DbSpec == DbSpecInit /\ [][DbNext]_vars

-----------------------------------------------------------------------------
(* Specifications of GeneratorManager.run over other inputs *)

\* The runs of run() over the catalog with the long template.
LongBurstInit ==
    /\ RunInit(LongParams, LongCatalog, {[common_urls |-> <<>>]})
    /\ GeoInit
    /\ DbInit
    /\ NoWorker

LongBurstSpec == LongBurstInit /\ [][Next]_vars

-----------------------------------------------------------------------------
(* Properties *)

\* run() has built the graph and initialised the loop (line 142 was passed).
LoopEntered == pc \in {"loop", "process", "write", "archive", "done"}

\* No iteration of the loop is half done: the state is one the loop is in
\* at the end of an iteration (or before the first).
IterationEnded == pc \in {"loop", "write", "archive", "done"}

\* The configuration satisfies the input contract: start_date < end_date,
\* num_messages > 0, network_size > 0.
ValidTimeRange == params.start_date < params.end_date
ValidTarget == params.num_messages > 0
ValidNetworkSize == params.network_size > 0
ValidParams == ValidTimeRange /\ ValidTarget /\ ValidNetworkSize

MissedCalls == {i \in DOMAIN all_calls : all_calls[i].Status = "Missed"}

\* The follow-up texts in all_messages that answer the call `call`.
FollowUpsOf(call) ==
    {j \in DOMAIN all_messages :
        /\ all_messages[j].Body = FollowUpBody
        /\ all_messages[j].Direction = "Outgoing"
        /\ all_messages[j].Sender = params.owner_name
        /\ all_messages[j].Recipient = call.Caller
        /\ Instant(all_messages[j].Timestamp)
              = Instant(call.Timestamp) + FollowUpDelay}

\* C1: with num_messages > 0, the number of messages appended to the output
\* message collection never exceeds num_messages, in any state of the loop.
C1_MessageCountWithinTarget ==
    params.num_messages > 0 =>
        /\ msg_count <= params.num_messages
        /\ Len(all_messages) = msg_count

\* C1 witness: the quota was reached in the middle of a burst, so the loop
\* stopped with a sub-event still queued.
C1_Witness ==
    /\ pc = "write"
    /\ params.num_messages > 0
    /\ msg_count = params.num_messages
    /\ burst_queue # <<>>

\* C2: the simulation loop always terminates: run() leaves the loop and reaches
\* a final position from every configuration, and every iteration either pops
\* one queued sub-event or advances the clock by at least the minimum gap.
C2_LoopTerminates ==
    /\ <>(pc \in Terminal)
    /\ [][(IterationStarts /\ is_cancelled' = is_cancelled) =>
             \/ Len(burst_queue') = Len(burst_queue) - 1
             \/ current_time' >= current_time + GapMin]_vars

\* C2 witness: a run whose message target could not be reached before
\* end_date finished normally.
C2_Witness ==
    /\ pc = "done"
    /\ params.num_messages > 0
    /\ msg_count < params.num_messages
    /\ current_time >= params.end_date
    /\ Len(all_messages) + Len(all_calls) > 0

\* C3: every emitted message, call and geo sample has a timestamp t with
\* start_date <= t < end_date (stated for valid params).
C3_TimestampsWithinRange ==
    ValidParams =>
    /\ \A i \in DOMAIN all_messages :
          /\ params.start_date <= Instant(all_messages[i].Timestamp)
          /\ Instant(all_messages[i].Timestamp) < params.end_date
    /\ \A i \in DOMAIN all_calls :
          /\ params.start_date <= Instant(all_calls[i].Timestamp)
          /\ Instant(all_calls[i].Timestamp) < params.end_date
    /\ \A i \in DOMAIN geo_points :
          /\ params.start_date <= Instant(geo_points[i].timestamp)
          /\ Instant(geo_points[i].timestamp) < params.end_date

\* C4: at the end of every loop iteration, every emitted message and every
\* emitted call has a geo sample with the identical timestamp (stated for
\* valid params).
C4_GeoSampleForEveryEvent ==
    (ValidParams /\ IterationEnded) =>
        /\ \A i \in DOMAIN all_messages :
              \E k \in DOMAIN geo_points :
                  Instant(geo_points[k].timestamp)
                      = Instant(all_messages[i].Timestamp)
        /\ \A i \in DOMAIN all_calls :
              \E k \in DOMAIN geo_points :
                  Instant(geo_points[k].timestamp)
                      = Instant(all_calls[i].Timestamp)

\* C5: every missed call has Duration 0 and, whenever the loop is about to
\* schedule or has stopped, exactly one follow-up message: Outgoing, from the
\* owner to the caller, 5 minutes after the call; until it is emitted it is
\* the only queued sub-event.
C5_MissedCallFollowUp ==
    \A i \in MissedCalls :
        /\ all_calls[i].Duration = 0
        /\ Cardinality(FollowUpsOf(all_calls[i])) <= 1
        /\ IterationEnded => Cardinality(FollowUpsOf(all_calls[i])) = 1
        /\ FollowUpsOf(all_calls[i]) = {} =>
              /\ pc = "process"
              /\ i = Len(all_calls)
              /\ Len(burst_queue) = 1
              /\ burst_queue[1].data.Body = FollowUpBody
              /\ burst_queue[1].ts = Instant(all_calls[i].Timestamp) + FollowUpDelay

\* C5 witness: two missed calls were emitted and answered.
C5_Witness ==
    /\ pc = "loop"
    /\ Cardinality(MissedCalls) = 2
    /\ \A i \in MissedCalls : Cardinality(FollowUpsOf(all_calls[i])) = 1

\* C6: for every emitted message and call exactly one participant is the
\* owner, and Direction = Outgoing iff the sender or caller is the owner
\* (stated for valid params).
C6_OwnerAndDirection ==
    ValidParams =>
    /\ \A i \in DOMAIN all_messages :
          LET m == all_messages[i]
          IN  /\ (m.Sender = params.owner_name) # (m.Recipient = params.owner_name)
              /\ (m.Direction = "Outgoing") <=> (m.Sender = params.owner_name)
    /\ \A i \in DOMAIN all_calls :
          (all_calls[i].Direction = "Outgoing")
              <=> (all_calls[i].Caller = params.owner_name)

\* C7: no contact of the graph has the owner's name (contacts are keyed by
\* name, so no two share an identity); stated for valid params.
C7_NoContactNamedOwner ==
    ValidParams => \A n \in DOMAIN graph : n # params.owner_name

\* C8: when network_size exceeds the names the scenario pools provide, a
\* graph that was returned has exactly network_size contacts (stated for
\* valid params).
C8_PaddedGraphHasNetworkSize ==
    (/\ ValidParams
     /\ LoopEntered
     /\ params.network_size > Len(AvailableNames(params.owner_name, scenarios)))
        => Cardinality(DOMAIN graph) = params.network_size

\* C9: with an empty social graph the run fails before the loop starts: the
\* clock is never advanced and the run never completes (stated for a valid
\* time range and message target).
C9_EmptyGraphIsFatal ==
    (ValidTimeRange /\ ValidTarget /\ LoopEntered /\ DOMAIN graph = {}) =>
        /\ pc # "done"
        /\ current_time = params.start_date

\* C10: with start_date >= end_date or num_messages <= 0 the run is aborted
\* with an error; it does not complete normally (stated for a non-empty
\* graph).
C10_InvalidConfigurationAborts ==
    (/\ ValidNetworkSize
     /\ params.start_date >= params.end_date \/ params.num_messages <= 0)
        => pc # "done"

\* run() is past the loop without cancellation or failure.
LoopExited == pc \in {"write", "archive", "done"}

\* C11: after a run that was cancelled once the loop had been entered, the
\* messages, calls and geo samples emitted before the cancellation was
\* observed have been passed to the artifact writers.
C11_CancelledRunHandsOffEvents ==
    (ValidParams /\ pc = "returned" /\ Len(progress_log) >= 3)
        => handed_off = HandOff(all_messages, all_calls, geo_points)

\* C12: the values reported to the progress callback during one run() never
\* decrease, lie in 0..100, and 100 is reported only as the last value, once
\* archiving has finished.
C12_ProgressMonotoneAndBounded ==
    /\ \A i \in DOMAIN progress_log : progress_log[i] \in 0..100
    /\ \A i, j \in DOMAIN progress_log :
          i < j => progress_log[i] <= progress_log[j]
    /\ \A i \in DOMAIN progress_log :
          progress_log[i] = 100 => (pc = "done" /\ i = Len(progress_log))

\* A finished run whose loop reported a value strictly between its base and
\* its cap.
C12_Witness ==
    /\ pc = "done"
    /\ progress_log[Len(progress_log)] = 100
    /\ \E i \in DOMAIN progress_log :
          progress_log[i] > 25 /\ progress_log[i] < 85

\* The queued sub-events of a burst are in strictly increasing time order.
QueueStrictlyIncreasing ==
    \A i \in 1..(Len(burst_queue) - 1) :
        burst_queue[i].ts < burst_queue[i + 1].ts

\* A queued follow-up is dated after the call (the last one appended) that
\* queued it.
CallPrecedesFollowUp ==
    (burst_queue # <<>> /\ Head(burst_queue).data.Body = FollowUpBody)
        => /\ all_calls # <<>>
           /\ Instant(all_calls[Len(all_calls)].Timestamp)
                 < Head(burst_queue).ts

\* A step that takes a sub-event from a non-empty queue emits the head of
\* the queue, stamped with its queued time, and leaves a queue whose head is
\* strictly later.
PopsInOrder ==
    (burst_queue # <<>> /\ burst_queue' # burst_queue)
        => /\ burst_queue' = Tail(burst_queue)
           /\ all_messages' =
                 Append(all_messages,
                        MessageRecord(Head(burst_queue).ts,
                                      Head(burst_queue).data))
           /\ Instant(all_messages'[Len(all_messages')].Timestamp)
                 = Head(burst_queue).ts
           /\ burst_queue' # <<>>
                 => Head(burst_queue).ts < Head(burst_queue').ts

\* C13: within a burst (the messages of one conversation, or a call and its
\* follow-up) the sub-events are emitted in the order they were queued and
\* with strictly increasing timestamps.
C13_BurstEmittedInOrder ==
    /\ [](QueueStrictlyIncreasing /\ CallPrecedesFollowUp)
    /\ [][PopsInOrder]_vars

\* The first message of a two-line conversation has been emitted and the
\* second, later one is still queued.
C13_Witness ==
    /\ Len(burst_queue) = 1
    /\ Head(burst_queue).data.Body # FollowUpBody
    /\ all_messages # <<>>
    /\ Instant(all_messages[Len(all_messages)].Timestamp) > current_time
    /\ Instant(all_messages[Len(all_messages)].Timestamp)
          < Head(burst_queue).ts

\* C14: with a valid configuration, all_messages is ordered by time: each
\* message's timestamp is at least that of the message appended before it,
\* whatever the length of the conversation templates.
C14_MessagesOrderedByTime ==
    ValidParams
        => \A i \in 1..(Len(all_messages) - 1) :
              Instant(all_messages[i].Timestamp)
                  <= Instant(all_messages[i + 1].Timestamp)

\* No optional messaging app is installed.
OnlyBuiltInApps == "WhatsApp" \notin params.installed_apps

OnlySmsMessages ==
    /\ \A i \in DOMAIN all_messages :
          all_messages[i].Platform = "Messages (SMS)"
    /\ \A i \in DOMAIN burst_queue :
          burst_queue[i].data.Platform = "Messages (SMS)"

C16_LoopStopsAtFirstLimit ==
    /\ [](LoopExited
            => (msg_count = params.num_messages \/ current_time >= end_time))
    /\ [][all_calls' # all_calls => msg_count' = msg_count]_vars

\* C17: with a valid configuration, no failure of a per-step side effect
\* (image generation, financial receipts) ends the run with an error.
C17_SideEffectFailureDoesNotUnwind ==
    ValidParams => ~(pc = "error" /\ error = "OSError")

\* C18: two get_location_for_time calls with the same time and the same
\* jitter draws return the same position, however many calls were made
\* before each and whatever last_pos was.
C18_LocationDependsOnTimeAndJitterOnly ==
    (/\ loc_seen # NoCall
     /\ loc_seen.dt = loc_last.dt
     /\ loc_seen.jitter = loc_last.jitter)
        => loc_seen.pos = loc_last.pos

\* The same time and draws were asked for twice with a call for another
\* position in between, so that last_pos differed between the two.
C18_Witness ==
    /\ loc_seen # NoCall
    /\ loc_seen.dt = loc_last.dt
    /\ loc_seen.jitter = loc_last.jitter
    /\ loc_seen.n = 1
    /\ loc_last.n = 3
    /\ last_pos = loc_last.pos
    /\ last_pos # Home

\* C19: once the graph is built and filtered by the scenario profile, every
\* contact has a non-empty platform list and a non-empty topic list, and
\* each of its topics belongs to the active profile or is "default".
C19_ContactsKeepPlatformsAndTopics ==
    \A name \in DOMAIN graph :
        /\ graph[name].Platforms # <<>>
        /\ graph[name].Topics # <<>>
        /\ \A t \in Range(graph[name].Topics) :
              \/ t \in AllowedTopics(scenarios, params.scenario)
              \/ t = "default"

\* The filter removed every topic of a contact and the fallback replaced
\* them, next to a contact that kept a topic of the profile.
C19_Witness ==
    /\ pc = "loop"
    /\ params.scenario = "Corporate"
    /\ \E name \in DOMAIN graph :
          graph[name].Role = "Friend" /\ graph[name].Topics = <<"default">>
    /\ \E name \in DOMAIN graph : graph[name].Topics = <<"project_kickoff">>

\* The with statement is left: __exit__ has run.
BlockLeft == db_pc = "block" /\ db_pc' # "block"

\* C20: when the with-block of an SQLiteDB finishes without an exception,
\* __exit__ commits and closes the connection and nothing is raised; when
\* the block raises, __exit__ rolls back and closes the connection, nothing
\* of the block reaches the database, and the block's exception propagates.
C20_ContextManagerCommitsOrRollsBack ==
    [][BlockLeft =>
          /\ db_conn' = "closed"
          /\ db_raised' = db_block_exc'
          /\ IF db_block_exc' = "none"
             THEN /\ db_calls' = <<"commit", "close">>
                  /\ db_pc' = "closed"
                  /\ db_rows' \in {db_rows \o db_pending, db_rows}
             ELSE /\ db_calls' = <<"rollback", "close">>
                  /\ db_pc' = "raised"
                  /\ db_rows' = db_rows]_vars

\* An earlier block committed its rows; a later block on the same file
\* raised and was rolled back.
C20_Witness ==
    /\ db_pc = "raised"
    /\ db_block_exc = "KeyError"
    /\ db_raised = "KeyError"
    /\ db_calls = <<"rollback", "close">>
    /\ db_conn = "closed"
    /\ Len(db_rows) = 2

\* The contact a message is exchanged with.
Partner(data) ==
    IF data.Direction = "Outgoing" THEN data.Recipient ELSE data.Sender

\* All queued sub-events are exchanged with one contact on one platform.
QueueOfOneInteraction ==
    \A i, j \in DOMAIN burst_queue :
        /\ Partner(burst_queue[i].data) = Partner(burst_queue[j].data)
        /\ burst_queue[i].data.Platform = burst_queue[j].data.Platform

\* A step that applies an inter-conversation gap, emits a call or queues
\* sub-events.
InteractionScheduled ==
    \/ current_time' # current_time
    \/ all_calls' # all_calls
    \/ Len(burst_queue') > Len(burst_queue)

\* C21: a gap is applied and an interaction is scheduled only when the
\* burst queue is empty, and at every moment the queued sub-events belong
\* to one interaction with one contact.
C21_OneInteractionInQueue ==
    /\ []QueueOfOneInteraction
    /\ [][InteractionScheduled => burst_queue = <<>>]_vars

\* A two-line conversation was queued after an earlier interaction had been
\* emitted and drained.
C21_Witness ==
    /\ Len(burst_queue) = 2
    /\ pc = "process"
    /\ all_calls # <<>> \/ all_messages # <<>>

\* C22: with a valid configuration, a run that returned at the loop's test
\* of the cancellation flag has no sub-event left in the burst queue.
C22_CancelledOnlyWhenIdle ==
    (ValidParams /\ pc = "returned" /\ 90 \notin Range(progress_log))
        => burst_queue = <<>>

\* C23: a gap that takes the clock to end_date or past it leads straight to
\* the end of the loop with nothing chosen, emitted or queued, and every
\* call is emitted and every burst queued at a clock before end_date.
C23_GapPastEndTerminates ==
    /\ [][(current_time' # current_time /\ current_time' >= end_time)
            => /\ pc' = "write"
               /\ UNCHANGED <<burst_queue, all_calls, all_messages,
                              geo_points, browser_history, image_files,
                              msg_count>>]_vars
    /\ [][(all_calls' # all_calls \/ Len(burst_queue') > Len(burst_queue))
            => current_time' < end_time]_vars

\* After an emitted call the next gap crossed end_date and the loop ended.
C23_Witness ==
    /\ pc = "write"
    /\ current_time >= end_time
    /\ current_time > params.start_date
    /\ all_calls # <<>>
    /\ burst_queue = <<>>

\* C26: when the loop was left without cancellation or failure and
\* sub-events are still queued, the message quota was reached and the clock
\* is before end_date: an exit because the clock reached end_date leaves
\* the queue empty.
C26_NoSubEventLostAtTimeOut ==
    /\ (LoopExited /\ burst_queue # <<>>)
          => (msg_count >= total_msgs /\ current_time < end_time)
    /\ (LoopExited /\ current_time >= end_time) => burst_queue = <<>>

\* Messages of a drained burst were emitted, the quota was not reached, and
\* the next gap took the clock to end_date: the loop ended, the queue empty.
C26_Witness ==
    /\ LoopExited
    /\ current_time >= end_time
    /\ burst_queue = <<>>
    /\ msg_count >= 2
    /\ msg_count < total_msgs

\* C27: a Missed call is Incoming and has Duration 0, a Connected call has
\* a Duration from 10 to 600, and no Outgoing call is Missed.
C27_CallStatusAndDuration ==
    \A i \in DOMAIN all_calls :
        LET call == all_calls[i]
        IN  /\ call.Status \in {"Missed", "Connected"}
            /\ call.Status = "Missed"
                  => (call.Direction = "Incoming" /\ call.Duration = 0)
            /\ call.Status = "Connected"
                  => (DurationMin <= call.Duration
                      /\ call.Duration <= DurationMax)
            /\ call.Direction = "Outgoing" => call.Status # "Missed"

\* A missed call and a connected outgoing call were emitted.
C27_Witness ==
    /\ \E i \in DOMAIN all_calls : all_calls[i].Status = "Missed"
    /\ \E i \in DOMAIN all_calls :
          /\ all_calls[i].Direction = "Outgoing"
          /\ all_calls[i].Status = "Connected"
          /\ all_calls[i].Duration = DurationMin

\* The contents of the catalog's conversation lines that the test of lines
\* 214-221 takes for a file: short, with a "." and a recognized extension.
FileTokens ==
    {c \in UNION {{scenarios.conversations[t][i].content :
                      i \in DOMAIN scenarios.conversations[t]} :
                  t \in DOMAIN scenarios.conversations} :
        IsImage(c) \/ IsDocument(c)}

\* An image file or a document-viewer entry was made for the file `c` with
\* the timestamp of the message `m`.
CompanionAt(c, m) ==
    \/ \E k \in DOMAIN image_files :
          /\ image_files[k].filename = c.text
          /\ image_files[k].timestamp = Instant(m.Timestamp)
    \/ \E k \in DOMAIN browser_history :
          /\ browser_history[k].Title = "View - " \o c.text
          /\ Instant(browser_history[k].Timestamp) = Instant(m.Timestamp)

\* C24: with a valid configuration, every emitted message made from a line
\* whose content is a short token with a recognized file extension has an
\* attachment reference, and an image file or document entry exists with
\* the message's timestamp.
C24_AttachmentAndCompanion ==
    ValidParams
        => \A i \in DOMAIN all_messages, c \in FileTokens :
              all_messages[i].Body.source = c.text
                  => /\ all_messages[i].Attachment # "None"
                     /\ CompanionAt(c, all_messages[i])

\* C28: with a valid configuration, once the loop is left every generated
\* image file and every document-viewer entry of the browser history
\* belongs to a message of all_messages.
C28_SideEffectsHaveMessages ==
    (ValidParams /\ LoopExited)
        => /\ \A k \in DOMAIN image_files :
                 \E i \in DOMAIN all_messages :
                    /\ all_messages[i].Attachment
                          = "/sdcard/DCIM/" \o image_files[k].filename
                    /\ Instant(all_messages[i].Timestamp)
                          = image_files[k].timestamp
           /\ \A k \in DOMAIN browser_history, c \in FileTokens :
                 browser_history[k].Title = "View - " \o c.text
                    => \E i \in DOMAIN all_messages :
                          /\ all_messages[i].Body.source = c.text
                          /\ browser_history[k]
                                = DocViewEntry(c,
                                      Instant(all_messages[i].Timestamp))

\* The target of a remembered get_location_for_time call, before _jitter.
PreJitterTarget(call) ==
    <<call.pos[1] - call.jitter[1], call.pos[2] - call.jitter[2]>>

\* The weekday route of the claim: the stops in their order, and the hours
\* spent in transit from each stop to the next.
WeekdayStops ==
    <<Home, Waypoints["coffee"], Work, Waypoints["gym"], Home>>
TransitHours == <<7, 8, 17, 19>>

\* `pos` lies minute/60 of the way from `start` to `end`.
OnTheWay(pos, start, end, minute) ==
    /\ 60 * (pos[1] - start[1]) = minute * (end[1] - start[1])
    /\ 60 * (pos[2] - start[2]) = minute * (end[2] - start[2])

\* The call follows the weekday route: in the k-th transit hour its target
\* lies between the k-th stop and the next, at the k-th stop at minute 0;
\* in any other hour it is the stop reached by the transits gone by.
OnWeekdayRoute(call) ==
    LET hour == Hour(call.dt)
        gone == {k \in DOMAIN TransitHours : TransitHours[k] < hour}
        now == {k \in DOMAIN TransitHours : TransitHours[k] = hour}
    IN  IF now = {}
        THEN PreJitterTarget(call) = WeekdayStops[Cardinality(gone) + 1]
        ELSE \A k \in now :
                OnTheWay(PreJitterTarget(call), WeekdayStops[k],
                         WeekdayStops[k + 1], Minute(call.dt))

WeekendPlaces ==
    {Home, Waypoints["park"], Waypoints["coffee"], Waypoints["grocery"]}

FollowsRoutine(call) ==
    IF Weekday(call.dt) < 5
    THEN OnWeekdayRoute(call)
    ELSE PreJitterTarget(call) \in WeekendPlaces

\* C25: a weekday call's pre-jitter target follows home, transit, coffee,
\* transit, work, transit, gym, transit, home over the hours of the day,
\* each transit starting at the stop it leaves and interpolating to the
\* next one; a weekend call's target is one of home, park, coffee and
\* grocery, and two weekend calls in the same hour have the same target.
C25_WeeklyRoutine ==
    /\ loc_last # NoCall => FollowsRoutine(loc_last)
    /\ loc_seen # NoCall => FollowsRoutine(loc_seen)
    /\ (/\ loc_seen # NoCall
        /\ Weekday(loc_seen.dt) >= 5
        /\ Weekday(loc_last.dt) >= 5
        /\ Hour(loc_seen.dt) = Hour(loc_last.dt))
           => PreJitterTarget(loc_seen) = PreJitterTarget(loc_last)

\* A Monday call at 08:30, between coffee and work, is remembered and the
\* last call is a Sunday afternoon one, in the park.
C25_Witness ==
    /\ loc_seen # NoCall
    /\ Weekday(loc_seen.dt) = 0
    /\ Hour(loc_seen.dt) = 8
    /\ Minute(loc_seen.dt) = 30
    /\ PreJitterTarget(loc_seen) \notin {Waypoints["coffee"], Work}
    /\ Weekday(loc_last.dt) = 6
    /\ PreJitterTarget(loc_last) = Waypoints["park"]

\* C29: a cancel request made before the archive exists is never lost:
\* once worker.stop() has been called, at any point after the thread was
\* started, the run does not go on to produce the archive.
C29_CancelNeverLost ==
    [][(cancel_requested /\ pc # "done") => pc' # "done"]_vars

\* C30: a run that returned early on the cancellation flag is never
\* reported as complete: the worker emits no finished signal and the
\* window does not announce the completion.
C30_CancelledRunNotReportedComplete ==
    pc = "returned" => (signal # "finished" /\ window # "complete")

=============================================================================
